---------------------------- MODULE Spec2Model ----------------------------
(* Model of the real-time telemetry client of tinyproxy-monitor: the Logs   *)
(* page (React component) with its WebSocket supervisor, log buffer and     *)
(* local filter, and the LogFilters child component.                        *)
(*                                                                          *)
(* A React event handler, the re-render it causes and the effects of that   *)
(* render form one atomic step.  A callback created by useCallback sees the *)
(* state of the render that created it: such a callback is modelled by the  *)
(* "closure" record it captured (connectionAttempts, filters, isPaused).    *)
(* A WebSocket keeps the closure of the connectWebSocket call that created  *)
(* it, and so does a reconnect timer.                                       *)
EXTENDS Integers, Sequences, FiniteSets, Bags, TLC

(***************************************************************************)
(* Bounds of the exploration                                               *)
(***************************************************************************)
MaxAlive == 2
MaxTimers == 2
MaxAttempts == 7
MaxFrames == 3
MaxClock == 1
MaxFilterOps == 2
StormAlive == 5
StormTimers == 5
StormSteps == 31
SessionAlive == 1
SessionTimers == 1
MaxPolls == 2
MaxPushes == 2
MaxReconnects == 2
ProtoAlive == 2
ProtoTimers == 1
ProtoSteps == 9
ViewAlive == 1
ViewTimers == 1
ViewSteps == 7
RetryAlive == 1
RetryTimers == 1
IngestAlive == 2
IngestTimers == 1
IngestSteps == 8

(***************************************************************************)
(* Program constants                                                       *)
(***************************************************************************)
MAX_LOGS == 1000
MAX_RECONNECT_ATTEMPTS == 5
RECONNECT_DELAYS == <<1000, 2000, 4000, 8000, 16000>>

LOG_LEVEL_PRIORITY ==
  ("CRITICAL" :> 0) @@ ("ERROR" :> 1) @@ ("WARNING" :> 2) @@
  ("NOTICE" :> 3) @@ ("CONNECT" :> 4) @@ ("INFO" :> 5)

logLevels == <<"CRITICAL", "ERROR", "WARNING", "NOTICE", "CONNECT", "INFO">>

Null == "null"

\* wsRef.current = null, and the two states of a timer ref without a pending timer
NoSocket == [readyState |-> "NONE"]
NoTimer == [delay |-> 0]
FiredTimer == [delay |-> -1]

ErrInitialLogs == "Failed to load initial logs"
ErrWsConnection == "WebSocket connection error"
ErrExhausted == "Failed to reconnect after multiple attempts"
ErrServer == "server error"

(***************************************************************************)
(* Strings are sequences of characters, so that toLowerCase and includes   *)
(* are computed and not assumed.                                           *)
(***************************************************************************)
LowerChar(c) ==
  CASE c = "E" -> "e"
    [] c = "R" -> "r"
    [] c = "O" -> "o"
    [] c = "K" -> "k"
    [] OTHER -> c

toLowerCase(s) == [i \in 1..Len(s) |-> LowerChar(s[i])]

includes(s, sub) ==
  \E i \in 0..(Len(s) - Len(sub)) : SubSeq(s, i + 1, i + Len(sub)) = sub

Min(a, b) == IF a < b THEN a ELSE b
Max(a, b) == IF a > b THEN a ELSE b

\* Array.prototype.slice(-n) for n > 0
sliceLast(s, n) == SubSeq(s, Max(Len(s) - n, 0) + 1, Len(s))

\* LOG_LEVEL_PRIORITY[level] || 5 : undefined and 0 are both falsy
priorityOr5(level) ==
  IF level \in DOMAIN LOG_LEVEL_PRIORITY /\ LOG_LEVEL_PRIORITY[level] # 0
  THEN LOG_LEVEL_PRIORITY[level]
  ELSE 5

levelPass(log, currentFilters) ==
  priorityOr5(log.level) <= priorityOr5(currentFilters.level)

searchPass(log, currentFilters) ==
  includes(toLowerCase(log.message), toLowerCase(currentFilters.search))

filterLogs(logsToFilter, currentFilters) ==
  LET byLevel == IF currentFilters.level # ""
                 THEN SelectSeq(logsToFilter, LAMBDA log : levelPass(log, currentFilters))
                 ELSE logsToFilter
  IN  IF currentFilters.search # <<>>
      THEN SelectSeq(byLevel, LAMBDA log : searchPass(log, currentFilters))
      ELSE byLevel

(***************************************************************************)
(* Data pushed by the server                                               *)
(***************************************************************************)
SrvRec(level, message, ts) ==
  [id |-> <<"srv", ts, 0>>, level |-> level, message |-> message, timestamp |-> ts]

RecInfo == SrvRec("INFO", <<"o", "k">>, 1)
RecNotice == SrvRec("NOTICE", <<"O", "K">>, 2)
RecCritical == SrvRec("CRITICAL", <<"E", "r">>, 3)
RecWarning == SrvRec("WARNING", <<"e", "r", "r">>, 4)
RecError == SrvRec("ERROR", <<"e", "R", "o">>, 5)
RecConnect == SrvRec("CONNECT", <<"o", "k">>, 6)

Batches ==
  { <<RecCritical>>, <<RecWarning>>, <<RecError>>,
    <<RecInfo, RecNotice>>, <<RecConnect>> }

Snapshots == { <<>>, <<RecInfo, RecNotice>>, <<RecCritical>> }

Searches == { <<>>, <<"E", "R">> }

InitialFilters == [level |-> "INFO", search |-> <<>>, realtime |-> TRUE]

VARIABLES
  mounted,              \* "init" | "mounted" | "unmounted"
  logs, filteredLogs,
  isConnected, isReconnecting, connectionAttempts,
  isPaused, error, filters,
  childFilters,         \* LogFilters' own filters state
  wsRef,                \* NoSocket or the socket wsRef.current refers to
  detached,             \* bag of live sockets wsRef does not refer to
  reconnectTimeoutRef,  \* NoTimer, FiredTimer, or the pending timer it refers to
  lostTimers,           \* bag of pending timers no ref refers to
  heartbeatIntervalRef, \* TRUE while the interval is set
  fetchState,           \* "idle" | "pending" | "done"
  now,                  \* Date.now()
  sent,                 \* messages sent on sockets during the last step
  ev,                   \* what the last step was
  streak,               \* abnormal closes since the last open or manual reconnect
  filterOps,            \* number of filter operations of the user so far
  frames,               \* number of frames received so far
  budget,               \* events the exploration still allows, or NoBudget
  \* the metrics page (App): its socket, timers, polls and history series
  appMounted,           \* "init" | "mounted" | "unmounted"
  appWs,                \* readyState of the socket ws.current refers to, or "NONE"
  appTimer,             \* TRUE while a reconnect timeout is pending
  appInterval,          \* TRUE while the history poll interval is set
  appPolls,             \* history polls in flight
  appClock,             \* timestamp of the last sample the server pushed
  appReconnects,        \* reconnect timers fired so far
  systemHistory, performanceHistory

logsVars == <<mounted, logs, filteredLogs, isConnected, isReconnecting,
          connectionAttempts, isPaused, error, filters, childFilters,
          wsRef, detached, reconnectTimeoutRef, lostTimers,
          heartbeatIntervalRef, fetchState, now, sent, ev, streak, filterOps, frames, budget>>

appVars == <<appMounted, appWs, appTimer, appInterval, appPolls, appClock,
             appReconnects, systemHistory, performanceHistory>>

vars == <<logsVars, appVars>>


\* the state captured by the callbacks of the current render
Closure == [attempts |-> connectionAttempts, filters |-> filters, paused |-> isPaused]

\* fromFailed: the socket was created by a manual reconnect in the Failed state
Socket(rs, cl, fromFailed, opened) ==
  [readyState |-> rs, cl |-> cl, fromFailed |-> fromFailed, opened |-> opened]

Timer(cl, delay) == [cl |-> cl, delay |-> delay]

One(x) == SetToBag({x})

Live == IF wsRef = NoSocket THEN detached ELSE detached (+) One(wsRef)

HasTimer == reconnectTimeoutRef \notin {NoTimer, FiredTimer}

PendingTimers ==
  IF HasTimer THEN lostTimers (+) One(reconnectTimeoutRef) ELSE lostTimers

Ev(op) == [op |-> op]

\* every step spends one event of a bounded exploration
NoBudget == 0 - 1
Spend == IF budget = NoBudget THEN budget' = budget
         ELSE budget > 0 /\ budget' = budget - 1

\* the state after construction, with b events allowed
InitBudget(b) ==
  /\ mounted = "init"
  /\ logs = <<>>
  /\ filteredLogs = <<>>
  /\ isConnected = FALSE
  /\ isReconnecting = FALSE
  /\ connectionAttempts = 0
  /\ isPaused = FALSE
  /\ error = Null
  /\ filters = InitialFilters
  /\ childFilters = InitialFilters
  /\ wsRef = NoSocket
  /\ detached = EmptyBag
  /\ reconnectTimeoutRef = NoTimer
  /\ lostTimers = EmptyBag
  /\ heartbeatIntervalRef = FALSE
  /\ fetchState = "idle"
  /\ now = 0
  /\ sent = <<>>
  /\ ev = Ev("init")
  /\ streak = 0
  /\ filterOps = 0
  /\ frames = 0
  /\ budget = b
  /\ appMounted = "init"
  /\ appWs = "NONE"
  /\ appTimer = FALSE
  /\ appInterval = FALSE
  /\ appPolls = 0
  /\ appClock = 0
  /\ appReconnects = 0
  /\ systemHistory = <<>>
  /\ performanceHistory = <<>>

Init == InitBudget(NoBudget)

(***************************************************************************)
(* Helpers shared by the handlers                                          *)
(***************************************************************************)
\* a state setter of an unmounted component does nothing
SetState(new, old) == IF mounted = "mounted" THEN new ELSE old

\* WebSocket.close(): a socket that is connecting or open starts closing
closeSocket(s) ==
  IF s.readyState \in {"CONNECTING", "OPEN"}
  THEN [s EXCEPT !.readyState = "CLOSING"]
  ELSE s

\* the socket an event is delivered to: the one wsRef refers to, or a detached one
Targets == {"ref", "det"}

SocketsOf(target) ==
  IF target = "ref"
  THEN (IF wsRef = NoSocket THEN {} ELSE {wsRef})
  ELSE BagToSet(detached)

\* wsRef and detached after socket s of the target was replaced by t
RefAfter(target, t) == IF target = "ref" THEN t ELSE wsRef
DetachedAfter(target, s, t) ==
  IF target = "ref" THEN detached ELSE (detached (-) One(s)) (+) One(t)

\* the failing state the user sees after retries were given up
Failed == error = ErrExhausted /\ ~isConnected /\ ~isReconnecting

\* connectWebSocket as created by the render that captured cl
connectWebSocket(cl, fromFailed) ==
  IF wsRef.readyState = "OPEN"
  THEN [created |-> FALSE, wsRef |-> wsRef, detached |-> detached,
        isReconnecting |-> isReconnecting]
  ELSE [created |-> TRUE,
        wsRef |-> Socket("CONNECTING", cl, fromFailed, FALSE),
        detached |-> IF wsRef # NoSocket THEN detached (+) One(closeSocket(wsRef))
                     ELSE detached,
        isReconnecting |-> SetState(TRUE, isReconnecting)]

CanConnect(maxAlive) ==
  \/ wsRef.readyState = "OPEN"
  \/ BagCardinality(Live) < maxAlive

(***************************************************************************)
(* Mount effect: fetchInitialLogs(), connectWebSocket(), heartbeat interval*)
(***************************************************************************)
Mount ==
  /\ mounted = "init"
  /\ mounted' = "mounted"
  /\ fetchState' = "pending"
  /\ wsRef' = Socket("CONNECTING", Closure, FALSE, FALSE)
  /\ isReconnecting' = TRUE
  /\ heartbeatIntervalRef' = TRUE
  /\ sent' = <<>>
  /\ Spend
  /\ UNCHANGED appVars
  /\ ev' = Ev("mount")
  /\ UNCHANGED <<logs, filteredLogs, isConnected, connectionAttempts, isPaused,
                 error, filters, childFilters, detached, reconnectTimeoutRef,
                 lostTimers, now, streak, filterOps, frames>>

(***************************************************************************)
(* ws.onopen                                                               *)
(***************************************************************************)
SubscribeMsg(cl) ==
  [action |-> "subscribe", level |-> cl.filters.level, search |-> cl.filters.search,
   on |-> "OPEN"]

WsOpen(target) ==
  \E s \in SocketsOf(target) :
    /\ s.readyState = "CONNECTING"
    /\ LET t == [s EXCEPT !.readyState = "OPEN", !.opened = TRUE]
       IN  /\ wsRef' = RefAfter(target, t)
           /\ detached' = DetachedAfter(target, s, t)
    /\ isConnected' = SetState(TRUE, isConnected)
    /\ isReconnecting' = SetState(FALSE, isReconnecting)
    /\ error' = SetState(Null, error)
    /\ connectionAttempts' = SetState(0, connectionAttempts)
    /\ sent' = <<SubscribeMsg(s.cl)>>
    /\ Spend
    /\ UNCHANGED appVars
    /\ ev' = [op |-> "open", fromFailed |-> s.fromFailed]
    /\ streak' = 0
    /\ UNCHANGED <<mounted, logs, filteredLogs, isPaused, filters, childFilters,
                   reconnectTimeoutRef, lostTimers, heartbeatIntervalRef,
                   fetchState, now, filterOps, frames>>

(***************************************************************************)
(* ws.onerror                                                              *)
(***************************************************************************)
WsError(target) ==
  \E s \in SocketsOf(target) :
    /\ s.readyState \in {"CONNECTING", "OPEN"}
    /\ mounted = "mounted"
    /\ error # ErrWsConnection
    /\ error' = ErrWsConnection
    /\ sent' = <<>>
    /\ Spend
    /\ UNCHANGED appVars
    /\ ev' = Ev("error")
    /\ UNCHANGED <<mounted, logs, filteredLogs, isConnected, isReconnecting,
                   connectionAttempts, isPaused, filters, childFilters, wsRef,
                   detached, reconnectTimeoutRef, lostTimers,
                   heartbeatIntervalRef, fetchState, now, streak, filterOps, frames>>

(***************************************************************************)
(* ws.onclose                                                              *)
(***************************************************************************)
\* the close events a socket can get: <<wasClean, code>>
CloseEvents(s) ==
  CASE s.readyState = "CONNECTING" -> { <<FALSE, 1006>> }
    [] s.readyState = "OPEN" -> { <<TRUE, 1000>>, <<TRUE, 1001>>, <<FALSE, 1006>> }
    [] s.readyState = "CLOSING" /\ s.opened -> { <<TRUE, 1000>>, <<FALSE, 1006>> }
    [] OTHER -> { <<FALSE, 1006>> }

AllCloseEvents == { <<TRUE, 1000>>, <<TRUE, 1001>>, <<FALSE, 1006>> }

reconnectDelay(attempts) ==
  RECONNECT_DELAYS[Min(attempts, Len(RECONNECT_DELAYS) - 1) + 1]

willRetry(wasClean, attempts) == ~wasClean /\ attempts < MAX_RECONNECT_ATTEMPTS

givesUp(wasClean, attempts) ==
  ~willRetry(wasClean, attempts) /\ attempts >= MAX_RECONNECT_ATTEMPTS

\* prev => prev + 1, counted up to MaxAttempts, which stands for every larger
\* value: the code compares the counter with MAX_RECONNECT_ATTEMPTS only
countUp(n) == Min(n + 1, MaxAttempts)

WsClose(target, ce, maxTimers) ==
  \E s \in SocketsOf(target) :
    LET wasClean == ce[1]
        retry == willRetry(wasClean, s.cl.attempts)
        delay == reconnectDelay(s.cl.attempts)
    IN
    /\ ce \in CloseEvents(s)
    /\ retry => BagCardinality(PendingTimers) < maxTimers
    /\ isConnected' = SetState(FALSE, isConnected)
    /\ wsRef' = NoSocket
    /\ detached' = Live (-) One(s)
    /\ connectionAttempts' =
         IF retry THEN SetState(countUp(connectionAttempts), connectionAttempts)
         ELSE connectionAttempts
    /\ reconnectTimeoutRef' =
         IF retry THEN Timer(s.cl, delay) ELSE reconnectTimeoutRef
    /\ lostTimers' = IF retry THEN PendingTimers ELSE lostTimers
    /\ error' =
         IF givesUp(wasClean, s.cl.attempts) THEN SetState(ErrExhausted, error)
         ELSE error
    /\ isReconnecting' =
         IF givesUp(wasClean, s.cl.attempts) THEN SetState(FALSE, isReconnecting)
         ELSE isReconnecting
    /\ sent' = <<>>
    /\ Spend
    /\ UNCHANGED appVars
    /\ ev' = [op |-> "close", wasClean |-> wasClean, code |-> ce[2],
              delay |-> IF retry THEN delay ELSE 0, k |-> streak,
              fromFailed |-> s.fromFailed, opened |-> s.opened,
              self |-> s.readyState # "CLOSING"]
    /\ streak' = IF wasClean THEN streak ELSE countUp(streak)
    /\ UNCHANGED <<mounted, logs, filteredLogs, isPaused, filters, childFilters,
                   heartbeatIntervalRef, fetchState, now, filterOps, frames>>

(***************************************************************************)
(* The reconnect timer fires: () => connectWebSocket()                     *)
(***************************************************************************)
TimerFire(which, maxAlive) ==
  \E t \in (IF which = "ref"
            THEN (IF HasTimer THEN {reconnectTimeoutRef} ELSE {})
            ELSE BagToSet(lostTimers)) :
    LET c == connectWebSocket(t.cl, FALSE)
    IN
    /\ CanConnect(maxAlive)
    /\ reconnectTimeoutRef' = IF which = "ref" THEN FiredTimer ELSE reconnectTimeoutRef
    /\ lostTimers' = IF which = "ref" THEN lostTimers ELSE lostTimers (-) One(t)
    /\ wsRef' = c.wsRef
    /\ detached' = c.detached
    /\ isReconnecting' = c.isReconnecting
    /\ sent' = <<>>
    /\ Spend
    /\ UNCHANGED appVars
    /\ ev' = [op |-> "timer", created |-> c.created]
    /\ UNCHANGED <<mounted, logs, filteredLogs, isConnected, connectionAttempts,
                   isPaused, error, filters, childFilters, heartbeatIntervalRef,
                   fetchState, now, streak, filterOps, frames>>

(***************************************************************************)
(* handleReconnect: the Reconnect button                                   *)
(***************************************************************************)
ReconnectVisible == mounted = "mounted" /\ ~isConnected /\ ~isReconnecting

handleReconnect(maxAlive) ==
  LET c == connectWebSocket(Closure, Failed)
  IN
  /\ ReconnectVisible
  /\ CanConnect(maxAlive)
  /\ connectionAttempts' = 0
  /\ wsRef' = c.wsRef
  /\ detached' = c.detached
  /\ isReconnecting' = c.isReconnecting
  /\ sent' = <<>>
  /\ Spend
  /\ UNCHANGED appVars
  /\ ev' = [op |-> "reconnect", fromFailed |-> Failed, created |-> c.created]
  /\ streak' = 0
  /\ UNCHANGED <<mounted, logs, filteredLogs, isConnected, isPaused, error,
                 filters, childFilters, reconnectTimeoutRef, lostTimers,
                 heartbeatIntervalRef, fetchState, now, filterOps, frames>>

(***************************************************************************)
(* ws.onmessage = handleWebSocketMessage                                   *)
(***************************************************************************)
\* the effect that re-filters after a render in which logs or filters changed
refilterEffect(newLogs, newFilters) == filterLogs(newLogs, newFilters)

\* (message.logs || []).map((log, index) => ({...log, id: `rt-${Date.now()}-${index}`}))
withIds(prefix, batch) ==
  [i \in 1..Len(batch) |-> [batch[i] EXCEPT !.id = <<prefix, now, i - 1>>]]

\* a variant that keeps the oldest MAX_LOGS records instead of the newest
appendLogsKeepOldest(prevLogs, newLogs) ==
  SubSeq(prevLogs \o newLogs, 1, Min(Len(prevLogs) + Len(newLogs), MAX_LOGS))

\* setLogs(prevLogs => [...prevLogs, ...newLogs].slice(-MAX_LOGS))
appendLogs(prevLogs, newLogs) == sliceLast(prevLogs \o newLogs, MAX_LOGS)

PingMsg == [action |-> "ping", on |-> wsRef.readyState]

\* case 'ping': if (wsRef.current?.readyState === WebSocket.OPEN) wsRef.current.send(ping)
pingReply == IF wsRef.readyState = "OPEN" THEN <<PingMsg>> ELSE <<>>

\* a variant that reports frames it cannot handle as server errors
errorAfterStrict(frame) ==
  IF frame.type \in {"error", "unknown", "malformed"} THEN SetState(ErrServer, error)
  ELSE error

\* case 'error': setError(message.message || message.error); every other
\* frame, and a frame JSON.parse rejects, leaves the error as it is
errorAfter(frame) ==
  IF frame.type = "error" THEN SetState(ErrServer, error) ELSE error

FrameTypes == {"realtime", "data", "info", "error", "ping", "unknown", "malformed"}

Frame(type, batch) == [type |-> type, logs |-> batch]

\* the realtime gate of the handler the socket got when it was created
ingests(s) == ~s.cl.paused /\ s.cl.filters.realtime

WsMessage(target, frame) ==
  \E s \in SocketsOf(target) :
    LET newLogs == withIds("rt", frame.logs)
        dataLogs == withIds("data", frame.logs)
        after ==
          CASE frame.type = "realtime" /\ ingests(s) -> appendLogs(logs, newLogs)
            [] frame.type = "data" -> dataLogs
            [] OTHER -> logs
    IN
    /\ s.readyState = "OPEN"
    /\ frames < MaxFrames
    /\ frames' = frames + 1
    /\ logs' = SetState(after, logs)
    /\ filteredLogs' = IF logs' # logs THEN refilterEffect(logs', filters)
                       ELSE filteredLogs
    /\ error' = errorAfter(frame)
    /\ sent' = IF frame.type = "ping" THEN pingReply ELSE <<>>
    /\ Spend
    /\ UNCHANGED appVars
    /\ ev' = [op |-> "message", type |-> frame.type, logs |-> frame.logs,
              ingested |-> frame.type = "realtime" /\ ingests(s) /\ mounted = "mounted",
              dropped |-> Len(logs) + Len(frame.logs) - Len(after),
              paused |-> isPaused, realtime |-> filters.realtime]
    /\ UNCHANGED <<mounted, isConnected, isReconnecting, connectionAttempts,
                   isPaused, filters, childFilters, wsRef, detached,
                   reconnectTimeoutRef, lostTimers, heartbeatIntervalRef,
                   fetchState, now, streak, filterOps>>

(***************************************************************************)
(* fetchInitialLogs resolves                                               *)
(***************************************************************************)
\* (data.logs || []).map((log, index) => ({...log, id: `initial-${index}-${Date.now()}`}))
initialIds(batch) ==
  [i \in 1..Len(batch) |-> [batch[i] EXCEPT !.id = <<"initial", i - 1, now>>]]

\* a variant that empties the buffer when the request fails
logsAfterFetchClearing(ok, batch) ==
  SetState(IF ok THEN initialIds(batch) ELSE <<>>, logs)

\* setLogs(logsWithIds) when response.ok; the catch block leaves logs alone
logsAfterFetch(ok, batch) ==
  IF ok THEN SetState(initialIds(batch), logs) ELSE logs

FetchResolve(ok, batch) ==
  /\ fetchState = "pending"
  /\ fetchState' = "done"
  /\ logs' = logsAfterFetch(ok, batch)
  /\ filteredLogs' = IF ok /\ mounted = "mounted" THEN refilterEffect(logs', filters)
                     ELSE filteredLogs
  /\ error' = SetState(IF ok THEN Null ELSE ErrInitialLogs, error)
  /\ sent' = <<>>
  /\ Spend
  /\ UNCHANGED appVars
  /\ ev' = [op |-> "snapshot", ok |-> ok, logs |-> batch]
  /\ UNCHANGED <<mounted, isConnected, isReconnecting, connectionAttempts,
                 isPaused, filters, childFilters, wsRef, detached,
                 reconnectTimeoutRef, lostTimers, heartbeatIntervalRef,
                 now, streak, filterOps, frames>>

(***************************************************************************)
(* handleFilterChange and the LogFilters handlers that call it             *)
(***************************************************************************)
UpdateFilterMsg(f) ==
  [action |-> "update_filter", level |-> f.level, search |-> f.search,
   on |-> wsRef.readyState]

BareMsg(action) == [action |-> action, on |-> wsRef.readyState]

filterMessages(newFilters) ==
  IF wsRef.readyState = "OPEN"
  THEN <<UpdateFilterMsg(newFilters)>> \o
       (IF newFilters.realtime # filters.realtime
        THEN (IF newFilters.realtime THEN <<BareMsg("subscribe")>>
              ELSE <<BareMsg("unsubscribe")>>)
        ELSE <<>>)
  ELSE <<>>

\* a variant that asks the server for the records again on a filter change
handleFilterChangeRefetching(newFilters, op) ==
  /\ filters' = newFilters
  /\ logs' = <<>>
  /\ filteredLogs' = <<>>
  /\ fetchState' = "pending"
  /\ sent' = filterMessages(newFilters)
  /\ Spend
  /\ UNCHANGED appVars
  /\ ev' = [op |-> op, was |-> filters]
  /\ filterOps' = filterOps + 1
  /\ UNCHANGED <<mounted, isConnected, isReconnecting, connectionAttempts,
                 isPaused, error, wsRef, detached, reconnectTimeoutRef,
                 lostTimers, heartbeatIntervalRef, now, streak, frames>>

handleFilterChange(newFilters, op) ==
  /\ filters' = newFilters
  /\ filteredLogs' = refilterEffect(logs, newFilters)
  /\ sent' = filterMessages(newFilters)
  /\ Spend
  /\ UNCHANGED appVars
  /\ ev' = [op |-> op, was |-> filters]
  /\ filterOps' = filterOps + 1
  /\ UNCHANGED <<mounted, logs, isConnected, isReconnecting, connectionAttempts,
                 isPaused, error, wsRef, detached, reconnectTimeoutRef,
                 lostTimers, heartbeatIntervalRef, fetchState, now, streak,
                 frames>>

\* the controls of LogFilters are disabled while isConnected is false
ControlsEnabled == mounted = "mounted" /\ isConnected /\ filterOps < MaxFilterOps

handleLevelChange(level) ==
  /\ ControlsEnabled
  /\ level # childFilters.level
  /\ childFilters' = [childFilters EXCEPT !.level = level]
  /\ handleFilterChange(childFilters', "level")

handleSearchChange(text) ==
  /\ ControlsEnabled
  /\ text # childFilters.search
  /\ childFilters' = [childFilters EXCEPT !.search = text]
  /\ sent' = <<>>
  /\ Spend
  /\ UNCHANGED appVars
  /\ ev' = Ev("searchInput")
  /\ UNCHANGED <<mounted, logs, filteredLogs, isConnected, isReconnecting,
                 connectionAttempts, isPaused, error, filters, wsRef, detached,
                 reconnectTimeoutRef, lostTimers, heartbeatIntervalRef,
                 fetchState, now, streak, filterOps, frames>>

handleSearchSubmit ==
  /\ ControlsEnabled
  /\ childFilters' = childFilters
  /\ handleFilterChange(childFilters, "search")

handleRealtimeToggle ==
  /\ ControlsEnabled
  /\ childFilters' = [childFilters EXCEPT !.realtime = ~childFilters.realtime]
  /\ handleFilterChange(childFilters', "realtime")

handleReset ==
  /\ ControlsEnabled
  /\ childFilters' = InitialFilters
  /\ handleFilterChange(InitialFilters, "reset")

(***************************************************************************)
(* togglePause, clearLogs                                                  *)
(***************************************************************************)
\* a variant that tells the server to pause or resume the stream
togglePauseNotifying ==
  /\ mounted = "mounted"
  /\ isConnected
  /\ isPaused' = ~isPaused
  /\ sent' = <<BareMsg(IF isPaused THEN "resume" ELSE "pause")>>
  /\ Spend
  /\ UNCHANGED appVars
  /\ ev' = Ev("pause")
  /\ UNCHANGED <<mounted, logs, filteredLogs, isConnected, isReconnecting,
                 connectionAttempts, error, filters, childFilters, wsRef,
                 detached, reconnectTimeoutRef, lostTimers,
                 heartbeatIntervalRef, fetchState, now, streak, filterOps, frames>>

togglePause ==
  /\ mounted = "mounted"
  /\ isConnected
  /\ isPaused' = ~isPaused
  /\ sent' = <<>>
  /\ Spend
  /\ UNCHANGED appVars
  /\ ev' = Ev("pause")
  /\ UNCHANGED <<mounted, logs, filteredLogs, isConnected, isReconnecting,
                 connectionAttempts, error, filters, childFilters, wsRef,
                 detached, reconnectTimeoutRef, lostTimers,
                 heartbeatIntervalRef, fetchState, now, streak, filterOps, frames>>

clearLogs ==
  /\ mounted = "mounted"
  /\ logs # <<>>
  /\ logs' = <<>>
  /\ filteredLogs' = refilterEffect(<<>>, filters)
  /\ sent' = <<>>
  /\ Spend
  /\ UNCHANGED appVars
  /\ ev' = Ev("clear")
  /\ UNCHANGED <<mounted, isConnected, isReconnecting, connectionAttempts,
                 isPaused, error, filters, childFilters, wsRef, detached,
                 reconnectTimeoutRef, lostTimers, heartbeatIntervalRef,
                 fetchState, now, streak, filterOps, frames>>

(***************************************************************************)
(* The heartbeat interval fires                                            *)
(***************************************************************************)
\* a variant of the interval callback that sends without looking at readyState
heartbeatMessagesUnguarded == <<PingMsg>>

\* if (wsRef.current?.readyState === WebSocket.OPEN) wsRef.current.send(ping)
heartbeatMessages == IF wsRef.readyState = "OPEN" THEN <<PingMsg>> ELSE <<>>

Heartbeat ==
  /\ heartbeatIntervalRef
  /\ sent' = heartbeatMessages
  /\ Spend
  /\ UNCHANGED appVars
  /\ ev' = Ev("heartbeat")
  /\ UNCHANGED <<mounted, logs, filteredLogs, isConnected, isReconnecting,
                 connectionAttempts, isPaused, error, filters, childFilters,
                 wsRef, detached, reconnectTimeoutRef, lostTimers,
                 heartbeatIntervalRef, fetchState, now, streak, filterOps, frames>>

(***************************************************************************)
(* Unmount: the cleanup of the mount effect calls disconnectWebSocket      *)
(***************************************************************************)
disconnectWebSocket ==
  /\ reconnectTimeoutRef' = NoTimer
  /\ heartbeatIntervalRef' = FALSE
  /\ detached' = IF wsRef # NoSocket THEN detached (+) One(closeSocket(wsRef))
                 ELSE detached
  /\ wsRef' = NoSocket
  /\ isConnected' = FALSE
  /\ isReconnecting' = FALSE

Unmount ==
  /\ mounted = "mounted"
  /\ mounted' = "unmounted"
  /\ disconnectWebSocket
  /\ sent' = <<>>
  /\ Spend
  /\ UNCHANGED appVars
  /\ ev' = [op |-> "unmount", had |-> wsRef.readyState]
  /\ UNCHANGED <<logs, filteredLogs, connectionAttempts, isPaused, error,
                 filters, childFilters, lostTimers, fetchState, now, streak,
                 filterOps, frames>>

(***************************************************************************)
(* Time passes                                                             *)
(***************************************************************************)
Tick ==
  /\ now < MaxClock
  /\ now' = now + 1
  /\ sent' = <<>>
  /\ Spend
  /\ UNCHANGED appVars
  /\ ev' = Ev("tick")
  /\ UNCHANGED <<mounted, logs, filteredLogs, isConnected, isReconnecting,
                 connectionAttempts, isPaused, error, filters, childFilters,
                 wsRef, detached, reconnectTimeoutRef, lostTimers,
                 heartbeatIntervalRef, fetchState, streak, filterOps, frames>>

(***************************************************************************)
(* The metrics page (App): /ws/metrics pushes one sample per message, the  *)
(* history endpoints are polled every 5 s                                  *)
(***************************************************************************)
maxDataPoints == 60

\* a sample as the server reports it; percent is Absent when the field is missing
Absent == 0 - 1

Sample(ts, percent) == [timestamp |-> ts, percent |-> percent]

\* metrics.cpu?.percent || 0
orZero(x) == IF x = Absent THEN 0 ELSE x

\* the chart point made of one sample
newPoint(item) == [time |-> item.timestamp, value |-> orZero(item.percent)]

\* data.map(item => ({...}))
formatSystemHistory(data) == [i \in 1..Len(data) |-> newPoint(data[i])]
formatPerformanceHistory(data) == [i \in 1..Len(data) |-> newPoint(data[i])]

\* setSystemHistory(prev => [...prev, newPoint].slice(-maxDataPoints))
updateSystemHistory(prev, metrics) ==
  sliceLast(prev \o <<newPoint(metrics)>>, maxDataPoints)

updatePerformanceHistory(prev, metrics) ==
  sliceLast(prev \o <<newPoint(metrics)>>, maxDataPoints)

\* a state setter of the unmounted App does nothing
AppSetState(new, old) == IF appMounted = "mounted" THEN new ELSE old

\* a response of n samples of the history endpoint
HistoryData(n) == [i \in 1..n |-> Sample(i, IF i = 1 THEN Absent ELSE i)]

PollLengths == {0, 1, maxDataPoints, maxDataPoints + 1}

PollOutcomes == {"ok", "failed", "performanceNotArray"}

AppMount ==
  /\ appMounted = "init"
  /\ appMounted' = "mounted"
  /\ appWs' = "CONNECTING"
  /\ appPolls' = 1
  /\ appInterval' = TRUE
  /\ UNCHANGED <<appTimer, appClock, appReconnects, systemHistory,
                 performanceHistory>>
  /\ UNCHANGED logsVars

\* setInterval(fetchHistoryData, 5000) fires
PollTick ==
  /\ appInterval
  /\ appPolls < MaxPolls
  /\ appPolls' = appPolls + 1
  /\ UNCHANGED <<appMounted, appWs, appTimer, appInterval, appClock,
                 appReconnects, systemHistory, performanceHistory>>
  /\ UNCHANGED logsVars

\* fetchHistoryData after both responses arrived
fetchHistoryData(outcome, sysData, perfData) ==
  /\ appPolls > 0
  /\ appPolls' = appPolls - 1
  /\ systemHistory' =
       IF outcome = "failed" THEN systemHistory
       ELSE AppSetState(formatSystemHistory(sysData), systemHistory)
  /\ performanceHistory' =
       IF outcome = "ok"
       THEN AppSetState(formatPerformanceHistory(perfData), performanceHistory)
       ELSE performanceHistory
  /\ UNCHANGED <<appMounted, appWs, appTimer, appInterval, appClock, appReconnects>>
  /\ UNCHANGED logsVars

MetricsOpen ==
  /\ appWs = "CONNECTING"
  /\ appWs' = "OPEN"
  /\ UNCHANGED <<appMounted, appTimer, appInterval, appPolls, appClock,
                 appReconnects, systemHistory, performanceHistory>>
  /\ UNCHANGED logsVars

\* ws.current.onmessage: data.system and data.tinyproxy are both optional
MetricsMessage(hasSystem, hasTinyproxy) ==
  LET metrics == Sample(appClock + 1, appClock + 1)
  IN
  /\ appWs = "OPEN"
  /\ appClock < MaxPushes
  /\ appClock' = appClock + 1
  /\ systemHistory' =
       IF hasSystem
       THEN AppSetState(updateSystemHistory(systemHistory, metrics), systemHistory)
       ELSE systemHistory
  /\ performanceHistory' =
       IF hasTinyproxy
       THEN AppSetState(updatePerformanceHistory(performanceHistory, metrics),
                        performanceHistory)
       ELSE performanceHistory
  /\ UNCHANGED <<appMounted, appWs, appTimer, appInterval, appPolls, appReconnects>>
  /\ UNCHANGED logsVars

\* ws.current.onclose: setTimeout(connectWebSocket, 3000)
MetricsClose ==
  /\ appWs \in {"CONNECTING", "OPEN", "CLOSING"}
  /\ appWs' = "CLOSED"
  /\ appTimer' = TRUE
  /\ UNCHANGED <<appMounted, appInterval, appPolls, appClock, appReconnects,
                 systemHistory, performanceHistory>>
  /\ UNCHANGED logsVars

\* the reconnect timeout fires: connectWebSocket()
MetricsTimer ==
  /\ appTimer
  /\ appReconnects < MaxReconnects
  /\ appReconnects' = appReconnects + 1
  /\ appTimer' = FALSE
  /\ appWs' = "CONNECTING"
  /\ UNCHANGED <<appMounted, appInterval, appPolls, appClock, systemHistory,
                 performanceHistory>>
  /\ UNCHANGED logsVars

\* cleanup of the mount effect: ws.current.close(); clearInterval(interval)
AppUnmount ==
  /\ appMounted = "mounted"
  /\ appMounted' = "unmounted"
  /\ appWs' = IF appWs \in {"CONNECTING", "OPEN"} THEN "CLOSING" ELSE appWs
  /\ appInterval' = FALSE
  /\ UNCHANGED <<appTimer, appPolls, appClock, appReconnects, systemHistory,
                 performanceHistory>>
  /\ UNCHANGED logsVars

(***************************************************************************)
(* Specifications.  Each explores the whole component from its initial     *)
(* state under one environment: the events the network, the server and the *)
(* user produce.                                                           *)
(***************************************************************************)
Abnormal == <<FALSE, 1006>>

\* SpecConn: the connection supervisor under any network behaviour
NextConn ==
  \/ Mount
  \/ \E target \in Targets : WsOpen(target)
  \/ \E target \in Targets : WsError(target)
  \/ \E target \in Targets : \E ce \in AllCloseEvents : WsClose(target, ce, MaxTimers)
  \/ \E which \in {"ref", "lost"} : TimerFire(which, MaxAlive)
  \/ handleReconnect(MaxAlive)

SpecConn == Init /\ [][NextConn]_vars

\* SpecStorm: a flapping server (every close is abnormal) and a user who
\* presses Reconnect whenever no socket is left, for StormSteps events
InitStorm == InitBudget(StormSteps)

NextStorm ==
  \/ Mount
  \/ \E target \in Targets : WsOpen(target)
  \/ \E target \in Targets : WsClose(target, Abnormal, StormTimers)
  \/ \E which \in {"ref", "lost"} : TimerFire(which, StormAlive)
  \/ (Live = EmptyBag /\ handleReconnect(StormAlive))

SpecStorm == InitStorm /\ [][NextStorm]_vars

\* SpecFilter: one stable connection; the server pushes records, the
\* snapshot resolves, the user changes the filters
FilterFrames ==
  { Frame("realtime", b) : b \in Batches } \cup { Frame("data", <<RecWarning>>) }

NextFilter ==
  \/ Mount
  \/ \E target \in Targets : WsOpen(target)
  \/ \E target \in Targets : \E frame \in FilterFrames : WsMessage(target, frame)
  \/ \E ok \in BOOLEAN : \E batch \in Snapshots : FetchResolve(ok, batch)
  \/ \E level \in DOMAIN LOG_LEVEL_PRIORITY : handleLevelChange(level)
  \/ \E text \in Searches : handleSearchChange(text)
  \/ handleSearchSubmit
  \/ handleRealtimeToggle
  \/ handleReset
  \/ clearLogs

SpecFilter == Init /\ [][NextFilter]_vars

\* SpecSession: a connection that is lost and re-established while the user
\* pauses, resumes and changes the level
SessionFrames ==
  { Frame("realtime", <<RecError>>), Frame("ping", <<>>), Frame("error", <<>>),
    Frame("info", <<>>), Frame("unknown", <<>>), Frame("malformed", <<>>) }

NextSession ==
  \/ Mount
  \/ \E target \in Targets : WsOpen(target)
  \/ \E target \in Targets : \E ce \in AllCloseEvents : WsClose(target, ce, SessionTimers)
  \/ \E which \in {"ref", "lost"} : TimerFire(which, SessionAlive)
  \/ handleReconnect(SessionAlive)
  \/ \E target \in Targets : \E frame \in SessionFrames : WsMessage(target, frame)
  \/ \E level \in {"ERROR", "INFO"} : handleLevelChange(level)
  \/ handleRealtimeToggle
  \/ togglePause
  \/ Heartbeat

SpecSession == Init /\ [][NextSession]_vars

\* SpecBuffer: frames and snapshots large enough to fill the buffer
Bulk(n) == [i \in 1..n |-> RecInfo]

BufferFrames ==
  { Frame("realtime", Bulk(MAX_LOGS - 1)), Frame("realtime", <<RecCritical>>),
    Frame("realtime", <<RecWarning, RecError>>), Frame("data", Bulk(MAX_LOGS + 1)),
    Frame("data", <<RecNotice>>) }

NextBuffer ==
  \/ Mount
  \/ \E target \in Targets : WsOpen(target)
  \/ \E target \in Targets : \E frame \in BufferFrames : WsMessage(target, frame)
  \/ \E ok \in BOOLEAN : \E batch \in Snapshots : FetchResolve(ok, batch)
  \/ clearLogs
  \/ Tick

SpecBuffer == Init /\ [][NextBuffer]_vars

\* SpecTeardown: the connection supervisor under any network behaviour, with
\* the user leaving the page at any moment
NextTeardown ==
  \/ Mount
  \/ \E target \in Targets : WsOpen(target)
  \/ \E target \in Targets : \E ce \in AllCloseEvents : WsClose(target, ce, MaxTimers)
  \/ \E which \in {"ref", "lost"} : TimerFire(which, MaxAlive)
  \/ handleReconnect(MaxAlive)
  \/ Heartbeat
  \/ Unmount

SpecTeardown == Init /\ [][NextTeardown]_vars

\* SpecMetrics: the metrics page under any network behaviour and any history
\* responses
NextMetrics ==
  \/ AppMount
  \/ PollTick
  \/ \E outcome \in PollOutcomes : \E n, m \in PollLengths :
       fetchHistoryData(outcome, HistoryData(n), HistoryData(m))
  \/ MetricsOpen
  \/ \E hasSystem, hasTinyproxy \in BOOLEAN : MetricsMessage(hasSystem, hasTinyproxy)
  \/ MetricsClose
  \/ MetricsTimer
  \/ AppUnmount

SpecMetrics == Init /\ [][NextMetrics]_vars

\* SpecProtocol: the first ProtoSteps events of a session in which the
\* connection is lost and re-established, the server sends frames of every
\* kind and the user pauses, changes the level and toggles realtime
ProtocolFrames ==
  { Frame("realtime", <<RecError>>), Frame("ping", <<>>),
    Frame("unknown", <<>>), Frame("malformed", <<>>) }

InitProtocol == InitBudget(ProtoSteps)

NextProtocol ==
  \/ Mount
  \/ \E target \in Targets : WsOpen(target)
  \/ \E target \in Targets : \E ce \in AllCloseEvents : WsClose(target, ce, ProtoTimers)
  \/ \E which \in {"ref", "lost"} : TimerFire(which, ProtoAlive)
  \/ handleReconnect(ProtoAlive)
  \/ \E target \in Targets : \E frame \in ProtocolFrames : WsMessage(target, frame)
  \/ \E level \in {"ERROR", "INFO"} : handleLevelChange(level)
  \/ handleRealtimeToggle
  \/ togglePause
  \/ Heartbeat

SpecProtocol == InitProtocol /\ [][NextProtocol]_vars

\* SpecView: the first ViewSteps events of a session in which the snapshot
\* succeeds or fails, the connection may be lost, the server pushes records
\* and the user works every filter control
ViewFrames ==
  { Frame("realtime", <<RecError>>), Frame("realtime", <<RecInfo, RecNotice>>),
    Frame("data", <<RecWarning>>) }

InitView == InitBudget(ViewSteps)

NextView ==
  \/ Mount
  \/ \E target \in Targets : WsOpen(target)
  \/ \E target \in Targets : \E ce \in AllCloseEvents : WsClose(target, ce, ViewTimers)
  \/ \E which \in {"ref", "lost"} : TimerFire(which, ViewAlive)
  \/ \E target \in Targets : \E frame \in ViewFrames : WsMessage(target, frame)
  \/ \E ok \in BOOLEAN : \E batch \in Snapshots : FetchResolve(ok, batch)
  \/ \E level \in DOMAIN LOG_LEVEL_PRIORITY : handleLevelChange(level)
  \/ \E text \in Searches : handleSearchChange(text)
  \/ handleSearchSubmit
  \/ handleRealtimeToggle
  \/ handleReset
  \/ clearLogs

SpecView == InitView /\ [][NextView]_vars

\* SpecRetry: the transport never opens and the user does nothing.  Every
\* socket that fails to connect gets its error and close events and every
\* pending timer fires; the snapshot resolves and time passes meanwhile.
NextRetry ==
  \/ Mount
  \/ WsError("ref")
  \/ WsClose("ref", Abnormal, RetryTimers)
  \/ TimerFire("ref", RetryAlive)
  \/ \E ok \in BOOLEAN : \E batch \in Snapshots : FetchResolve(ok, batch)
  \/ Heartbeat
  \/ Tick

\* the page is mounted, the browser delivers the close event of a failed
\* connection, and a timeout that was set fires
FairRetry ==
  /\ WF_vars(Mount)
  /\ WF_vars(WsClose("ref", Abnormal, RetryTimers))
  /\ WF_vars(TimerFire("ref", RetryAlive))

SpecRetry == Init /\ [][NextRetry]_vars /\ FairRetry

\* SpecIngest: the first IngestSteps events of a session in which the
\* server pushes 'realtime' and 'data' frames while the user pauses,
\* resumes, switches realtime mode, clears the buffer and the connection is
\* lost and re-established automatically or by hand
IngestFrames ==
  { Frame("realtime", <<RecError>>), Frame("data", <<RecWarning>>) }

InitIngest == InitBudget(IngestSteps)

NextIngest ==
  \/ Mount
  \/ \E target \in Targets : WsOpen(target)
  \/ \E target \in Targets : \E ce \in AllCloseEvents : WsClose(target, ce, IngestTimers)
  \/ \E which \in {"ref", "lost"} : TimerFire(which, IngestAlive)
  \/ handleReconnect(IngestAlive)
  \/ \E target \in Targets : \E frame \in IngestFrames : WsMessage(target, frame)
  \/ togglePause
  \/ handleRealtimeToggle
  \/ clearLogs

SpecIngest == InitIngest /\ [][NextIngest]_vars

(***************************************************************************)
(* Properties                                                              *)
(***************************************************************************)
Body(r) == [level |-> r.level, message |-> r.message, timestamp |-> r.timestamp]
Bodies(seq) == [i \in 1..Len(seq) |-> Body(seq[i])]
Range(seq) == { seq[i] : i \in 1..Len(seq) }
AllLive(seq) == \A i \in 1..Len(seq) : seq[i].id[1] = "rt"
AbnormalClose == ev.op = "close" /\ ~ev.wasClean

\* C1: the k-th consecutive abnormal close (k = 0..4) with no open and no
\* manual reconnect in between schedules the retry after
\* RECONNECT_DELAYS[min(k, 4)]: 1s, 2s, 4s, 8s, 16s.
C1_BackoffSequence ==
  (AbnormalClose /\ ev.k \in 0..4) =>
    ev.delay = RECONNECT_DELAYS[Min(ev.k, 4) + 1]

\* C2: after 5 consecutive automatic retries without an open, the next
\* abnormal close schedules no retry timer and leaves the client Failed
\* (exhausted-retries error shown, not reconnecting); with no timer pending
\* no connection attempt can follow except a manual reconnect.
C2_GivesUpAfterFiveRetries ==
  (AbnormalClose /\ ev.k >= MAX_RECONNECT_ATTEMPTS) =>
    (ev.delay = 0 /\ PendingTimers = EmptyBag /\ Failed)

\* C3: when a socket created by a manual reconnect from the Failed state has
\* opened and then closes abnormally, a retry is scheduled with the first
\* delay, 1s.
C3_ManualReconnectResets ==
  (AbnormalClose /\ ev.fromFailed /\ ev.opened /\ ev.self) =>
    ev.delay = RECONNECT_DELAYS[1]

\* C4: every ingested 'realtime' frame leaves the buffer with at most
\* MAX_LOGS records, and they are exactly the last min(n, MAX_LOGS) of the
\* previous buffer followed by the frame's records, in arrival order.
C4_AppendKeepsMostRecent ==
  [][ (ev'.op = "message" /\ ev'.ingested) =>
        LET n == Len(logs) + Len(ev'.logs)
            m == Min(n, MAX_LOGS)
            kept == m - Len(ev'.logs)
        IN  /\ Len(logs') = m
            /\ Len(logs') <= MAX_LOGS
            /\ kept >= 0 =>
                 /\ SubSeq(logs', 1, kept) = SubSeq(logs, Len(logs) - kept + 1, Len(logs))
                 /\ Bodies(SubSeq(logs', kept + 1, m)) = Bodies(ev'.logs)
            /\ kept < 0 =>
                 Bodies(logs') = Bodies(SubSeq(ev'.logs, 1 - kept, Len(ev'.logs))) ]_vars

\* an ingested frame overflowed the buffer and the oldest records were evicted
C4_Witness ==
  /\ ev.op = "message" /\ ev.ingested
  /\ ev.dropped > 0
  /\ Len(logs) = MAX_LOGS
  /\ Body(logs[MAX_LOGS]) \in {Body(RecCritical), Body(RecError)}

\* C5: the view keeps a record iff priority(record.level) <=
\* priority(filter.level) under CRITICAL(0) < ERROR(1) < WARNING(2) <
\* NOTICE(3) < CONNECT(4) < INFO(5), and the search text is empty or
\* contained case-insensitively in the message.
visible(r, f) ==
  /\ LOG_LEVEL_PRIORITY[r.level] <= LOG_LEVEL_PRIORITY[f.level]
  /\ \/ f.search = <<>>
     \/ includes(toLowerCase(r.message), toLowerCase(f.search))

C5_FilterContract ==
  filteredLogs = SelectSeq(logs, LAMBDA r : visible(r, filters))

\* C6: widening the level threshold to a less severe level never removes a
\* record that was visible at the stricter threshold.
C6_LevelMonotonic ==
  \A i \in 1..Len(logLevels) : \A j \in i..Len(logLevels) :
    Range(filterLogs(logs, [filters EXCEPT !.level = logLevels[i]])) \subseteq
      Range(filterLogs(logs, [filters EXCEPT !.level = logLevels[j]]))

\* C7: with the threshold at ERROR, no search text and the stream open, once
\* one CRITICAL, one WARNING and one ERROR record were pushed, the view holds
\* exactly the CRITICAL and the ERROR record in arrival order.
C7_EndToEnd ==
  ( /\ filters.level = "ERROR" /\ filters.search = <<>>
    /\ wsRef.readyState = "OPEN"
    /\ Len(logs) = 3 /\ AllLive(logs)
    /\ Range(Bodies(logs)) = {Body(RecCritical), Body(RecWarning), Body(RecError)} )
  => Bodies(filteredLogs) =
       SelectSeq(Bodies(logs), LAMBDA r : r.level \in {"CRITICAL", "ERROR"})

\* C8: a 'realtime' frame received while the view is paused is not put into
\* the buffer, and one received while it is not paused (realtime mode on) is.
C8_PauseGatesIngestion ==
  (ev.op = "message" /\ ev.type = "realtime" /\ ev.logs # <<>>) =>
    /\ ev.paused => ~ev.ingested
    /\ (~ev.paused /\ ev.realtime) => ev.ingested

\* C9: when the snapshot resolves over a buffer of live records that are all
\* newer than the snapshot's latest record, the buffer becomes the snapshot
\* followed by those live records.
LatestTimestamp(batch) ==
  CHOOSE t \in { batch[i].timestamp : i \in 1..Len(batch) } :
    \A i \in 1..Len(batch) : batch[i].timestamp <= t

C9_SnapshotKeepsNewerLive ==
  [][ ( /\ ev'.op = "snapshot" /\ ev'.ok
        /\ ev'.logs # <<>> /\ logs # <<>> /\ AllLive(logs)
        /\ \A i \in 1..Len(logs) : logs[i].timestamp > LatestTimestamp(ev'.logs) )
      => Bodies(logs') = Bodies(ev'.logs \o logs) ]_vars

\* C10: whenever a socket opens, the subscribe message sent carries the
\* level and search of the filter state of that moment.
C10_SubscribeCurrentFilter ==
  ev.op = "open" =>
    sent = <<[action |-> "subscribe", level |-> filters.level,
              search |-> filters.search, on |-> "OPEN"]>>

\* C11: unmounting cancels the backoff timer and the heartbeat and closes the
\* socket, and once the view is unmounted no retry is scheduled, no timer
\* callback fires and no new connection is being opened, whatever state the
\* connection was in at unmount.
C11_UnmountStopsEverything ==
  mounted = "unmounted" =>
    /\ ~heartbeatIntervalRef
    /\ wsRef = NoSocket
    /\ PendingTimers = EmptyBag
    /\ ev.op # "timer"
    /\ ~(ev.op = "close" /\ ev.delay > 0)
    /\ \A s \in BagToSet(Live) : s.readyState # "CONNECTING"

\* C12: a close the client did not ask for whose code is not 1000, clean or
\* not, schedules an automatic retry while attempts remain.
C12_OtherCloseCodesRetry ==
  ( /\ ev.op = "close" /\ ev.self /\ ev.code # 1000
    /\ mounted = "mounted"
    /\ ev.k < MAX_RECONNECT_ATTEMPTS )
  => ev.delay > 0

\* C13: a level change, a submitted search, turning realtime on or turning it
\* off, made while the socket is open, sends exactly one protocol message.
C13_OneMessagePerOperation ==
  (ev.op \in {"level", "search", "realtime"} /\ wsRef.readyState = "OPEN")
  => Len(sent) = 1

\* C19: each metrics history series holds at most 60 samples in every
\* reachable state, and a push at capacity evicts the oldest sample first.
C19_HistoryWindow ==
  /\ Len(systemHistory) <= maxDataPoints
  /\ Len(performanceHistory) <= maxDataPoints

\* C14: every protocol message (subscribe, update_filter, unsubscribe, ping)
\* is sent on a socket that is OPEN at the moment of the send.
C14_SendsOnlyOnOpenSocket ==
  \A i \in 1..Len(sent) : sent[i].on = "OPEN"

\* after a reconnect the filter handler sent its messages while a socket
\* that was replaced earlier is still alive
C14_Witness ==
  /\ ev.op \in {"level", "realtime"}
  /\ sent # <<>>
  /\ wsRef.readyState = "OPEN"
  /\ detached # EmptyBag

\* C15: a server 'ping' frame received while the client is connected is
\* answered in the same step by exactly one ping.
C15_PingAnsweredAtOnce ==
  (ev.op = "message" /\ ev.type = "ping" /\ isConnected)
  => sent = <<[action |-> "ping", on |-> "OPEN"]>>

\* C16: toggling pause only flips isPaused: no message is sent, no socket is
\* closed or opened, the attempt counter and the timers stay as they are,
\* and the buffer, the view and the filters are unchanged.
C16_PauseIsClientOnly ==
  [][ ev'.op = "pause" =>
        /\ isPaused' = ~isPaused
        /\ sent' = <<>>
        /\ UNCHANGED <<logs, filteredLogs, filters, childFilters, wsRef, detached,
                       isConnected, isReconnecting, connectionAttempts,
                       reconnectTimeoutRef, lostTimers, heartbeatIntervalRef,
                       error, fetchState>> ]_vars

\* the view was paused over an open socket with records in the buffer
C16_Witness ==
  /\ ev.op = "pause"
  /\ isPaused
  /\ wsRef.readyState = "OPEN"
  /\ logs # <<>>

\* C18: a frame that is not JSON or whose type is unknown changes nothing
\* (buffer, view, filters, connection state, attempt counter, timers, error)
\* and sends nothing, and a 'realtime' frame that follows it on a socket
\* whose gate is open is appended as usual.
BadFrame(e) == e.op = "message" /\ e.type \in {"unknown", "malformed"}

C18_BadFramesDropped ==
  [][ /\ BadFrame(ev') =>
           /\ sent' = <<>>
           /\ UNCHANGED <<logs, filteredLogs, filters, childFilters, isPaused,
                          isConnected, isReconnecting, connectionAttempts, error,
                          wsRef, detached, reconnectTimeoutRef, lostTimers,
                          heartbeatIntervalRef, fetchState>>
      /\ ( /\ BadFrame(ev)
           /\ ev'.op = "message" /\ ev'.type = "realtime" /\ ev'.ingested )
         => Bodies(logs') = Bodies(sliceLast(logs \o ev'.logs, MAX_LOGS)) ]_vars

\* a malformed frame arrived on the open socket of a connected client that
\* already holds records, and more frames can follow
C18_Witness ==
  /\ ev.op = "message" /\ ev.type = "malformed"
  /\ isConnected /\ wsRef.readyState = "OPEN"
  /\ logs # <<>>
  /\ frames < MaxFrames

\* C17: a failed snapshot request leaves the buffer and the view as they
\* were, records the error 'Failed to load initial logs', sends nothing and
\* touches neither the connection state, the attempt counter nor any timer;
\* while that error is shown the socket still opens and an ingested
\* 'realtime' frame is still appended.
C17_SnapshotFailureIsNotFatal ==
  [][ /\ (ev'.op = "snapshot" /\ ~ev'.ok) =>
           /\ logs' = logs
           /\ filteredLogs' = filteredLogs
           /\ mounted = "mounted" => error' = ErrInitialLogs
           /\ sent' = <<>>
           /\ UNCHANGED <<wsRef, detached, isConnected, isReconnecting,
                          connectionAttempts, reconnectTimeoutRef, lostTimers,
                          heartbeatIntervalRef, isPaused, filters>>
      /\ (error = ErrInitialLogs /\ ev'.op = "open") => isConnected'
      /\ ( /\ error = ErrInitialLogs
           /\ ev'.op = "message" /\ ev'.type = "realtime" /\ ev'.ingested )
         => Bodies(logs') = Bodies(sliceLast(logs \o ev'.logs, MAX_LOGS)) ]_vars

\* the snapshot has failed and a live record was appended afterwards on the
\* open connection
C17_Witness ==
  /\ error = ErrInitialLogs
  /\ fetchState = "done"
  /\ ev.op = "message" /\ ev.type = "realtime" /\ ev.ingested
  /\ isConnected
  /\ logs # <<>>

\* C20: a filter change (level, search, realtime, reset) leaves the buffer
\* as it is, never starts the snapshot request again and shows exactly
\* filterLogs of the unchanged buffer under the new filters; filtering the
\* view again under the same filters gives the same view.
FilterOperations == {"level", "search", "realtime", "reset"}

C20_FilterChangeIsLocal ==
  [][ ev'.op \in FilterOperations =>
        /\ logs' = logs
        /\ fetchState' = fetchState
        /\ filteredLogs' = filterLogs(logs, filters')
        /\ filterLogs(filteredLogs', filters') = filteredLogs'
        /\ \A i \in 1..Len(filteredLogs') :
             \E j \in 1..Len(logs) : filteredLogs'[i] = logs[j] ]_vars

\* a filter change hid a part of a non-empty buffer
C20_Witness ==
  /\ ev.op \in FilterOperations
  /\ logs # <<>>
  /\ Len(filteredLogs) < Len(logs)
  /\ fetchState = "done"

\* C21: when no connection attempt ever opens and the user does nothing, the
\* client eventually gives up: it is Failed (exhausted-retries error shown,
\* not reconnecting) with no retry timer pending.
C21_EventuallyGivesUp == <>(Failed /\ PendingTimers = EmptyBag)

\* C22: the buffer never holds more than MAX_LOGS records, whatever
\* snapshot, 'realtime' frames, 'data' frames and clears occurred and
\* however many records one of them carried.
C22_BufferBounded == Len(logs) <= MAX_LOGS

\* C25: every record in the buffer carries an id made by the client, not the
\* one the server sent, and no two records in the buffer have the same id.
C25_DistinctClientIds ==
  /\ \A i \in 1..Len(logs) : logs[i].id[1] \in {"rt", "data", "initial"}
  /\ Cardinality({ logs[i].id : i \in 1..Len(logs) }) = Len(logs)

\* C23: at most one socket of the log stream is alive (CONNECTING or OPEN)
\* at any time.
AliveSockets ==
  LET alive == { s \in BagToSet(Live) : s.readyState \in {"CONNECTING", "OPEN"} }
  IN  [s \in alive |-> CopiesIn(s, Live)]

C23_SingleAliveSocket == BagCardinality(AliveSockets) <= 1

\* C27: the attempt counter stays within 0..MAX_RECONNECT_ATTEMPTS, and it
\* is 0 whenever the client reports that it is connected.
C27_AttemptCounterRange ==
  /\ connectionAttempts \in 0..MAX_RECONNECT_ATTEMPTS
  /\ isConnected => connectionAttempts = 0

\* C28: the close event of a socket that wsRef no longer refers to, handled
\* while wsRef refers to a newer socket, leaves wsRef and isConnected as
\* they are and schedules no retry.
C28_StaleCloseIsIgnored ==
  [][ (ev'.op = "close" /\ wsRef # NoSocket /\ detached' # detached) =>
        /\ wsRef' = wsRef
        /\ isConnected' = isConnected
        /\ ev'.delay = 0
        /\ UNCHANGED <<reconnectTimeoutRef, lostTimers, connectionAttempts>> ]_vars

\* C29: at most one retry timer is pending at any time, and none is pending
\* right after a manual reconnect created a socket.
C29_SingleRetryTimer ==
  /\ BagCardinality(PendingTimers) <= 1
  /\ (ev.op = "reconnect" /\ ev.created) => PendingTimers = EmptyBag

\* C26: once the metrics page is unmounted no reconnect timer is pending and
\* no metrics socket is connecting or open: the close caused by the cleanup
\* schedules no reconnect and no connection is opened afterwards.
C26_MetricsUnmountIsFinal ==
  appMounted = "unmounted" =>
    /\ ~appTimer
    /\ appWs \notin {"CONNECTING", "OPEN"}

\* C24: a frame of any type received while the view is paused leaves the
\* buffer as it is.
C24_PausedBufferFrozen ==
  [][ (ev'.op = "message" /\ isPaused) => logs' = logs ]_vars

\* C30: a 'realtime' frame received while realtime mode is off leaves the
\* buffer as it is, also after a reconnect in that mode, and one received
\* while realtime mode is on again (view not paused) is appended.
C30_RealtimeModeGate ==
  [][ (ev'.op = "message" /\ ev'.type = "realtime") =>
        IF ~filters.realtime THEN logs' = logs
        ELSE ~isPaused => Bodies(logs') = Bodies(sliceLast(logs \o ev'.logs, MAX_LOGS)) ]_vars

=============================================================================
